---- MODULE Spec2Model ----
(***************************************************************************)
(* DiscordBinanceBot: the alert store (src/src/database.py), the candle    *)
(* adapter (src/src/binance_client.py), the poll cycle                     *)
(* (src/src/alert_service.py) and the poll loop and command handlers       *)
(* (src/src/bot.py).                                                       *)
(*                                                                         *)
(* Python strings are sequences of one-character strings.  Prices are      *)
(* integers (only their order is used by the code).  An Optional[int] that *)
(* the code tests for truth (channel ids) is 0 when None.  An Optional[str]*)
(* is a sequence of length 0 (None) or 1 (the string).                     *)
(***************************************************************************)
EXTENDS Integers, Sequences, FiniteSets, TLC

VARIABLES
    alerts,          \* table alerts: a set of rows
    seq,             \* sqlite_sequence of table alerts (AUTOINCREMENT)
    settings,        \* table settings: key -> value, on the keys present
    last_checked,    \* alert_service._last_checked: ticker -> close_time
    loop,            \* the alert_loop task: where it is (pc) and the locals of
                     \* alert_loop and of check_alerts_and_send
    hist,            \* history of the poll cycle (no program state)
    op               \* history: the last direct call of a store operation

vars == <<alerts, seq, settings, last_checked, loop, hist, op>>

(***************************************************************************)
(* Bounds of the model.                                                    *)
(***************************************************************************)
MaxId == 2          \* rows ever inserted into table alerts
MaxPrice == 3       \* prices are 1..MaxPrice
MaxTime == 2        \* close times are 1..MaxTime
MaxRawLen == 3      \* length of a stored poll_interval_seconds value
MaxAttempts == 2    \* cap of the history counter attempts

(***************************************************************************)
(* Program constants (bot.py).                                             *)
(***************************************************************************)
MIN_POLL_INTERVAL == 30
MAX_POLL_INTERVAL == 300
DEFAULT_POLL_INTERVAL == 60
ANNOUNCEMENT_CHANNEL_KEY == "announcement_channel_id"
POLL_INTERVAL_KEY == "poll_interval_seconds"

(***************************************************************************)
(* Strings.                                                                *)
(***************************************************************************)
Digits == <<"0", "1", "2", "3", "4", "5", "6", "7", "8", "9">>

IsDigit(c) == \E i \in 1..10 : Digits[i] = c

DigitVal(c) == (CHOOSE i \in 1..10 : Digits[i] = c) - 1

IsSpace(c) == c = " "

\* str.upper() on the letters the model uses
Upper(c) ==
    CASE c = "b" -> "B"
      [] c = "e" -> "E"
      [] c = "u" -> "U"
      [] c = "s" -> "S"
      [] c = "d" -> "D"
      [] c = "t" -> "T"
      [] OTHER -> c

\* code point order of the characters the model uses
Ord(c) ==
    CASE c = " " -> 32
      [] c = "+" -> 43
      [] c = "-" -> 45
      [] c = "/" -> 47
      [] IsDigit(c) -> 48 + DigitVal(c)
      [] c = "B" -> 66
      [] c = "D" -> 68
      [] c = "E" -> 69
      [] c = "S" -> 83
      [] c = "T" -> 84
      [] c = "U" -> 85
      [] c = "_" -> 95
      [] c = "b" -> 98
      [] c = "d" -> 100
      [] c = "e" -> 101
      [] c = "s" -> 115
      [] c = "t" -> 116
      [] c = "u" -> 117
      [] OTHER -> 120

RECURSIVE StrLt(_, _)
\* s < t in Python's (and SQLite's BINARY) string order
StrLt(s, t) ==
    IF t = <<>> THEN FALSE
    ELSE IF s = <<>> THEN TRUE
    ELSE IF Head(s) = Head(t) THEN StrLt(Tail(s), Tail(t))
    ELSE Ord(Head(s)) < Ord(Head(t))

USDT == <<"U", "S", "D", "T">>

EndsWith(s, suffix) ==
    /\ Len(s) >= Len(suffix)
    /\ SubSeq(s, Len(s) - Len(suffix) + 1, Len(s)) = suffix

RECURSIVE DropSlashes(_)
\* s.replace("/", "")
DropSlashes(s) ==
    IF s = <<>> THEN <<>>
    ELSE IF Head(s) = "/" THEN DropSlashes(Tail(s))
    ELSE <<Head(s)>> \o DropSlashes(Tail(s))

\* NormalizeTicker that appends "USDT" to every ticker
NormalizeTicker_AlwaysAppends(t) ==
    DropSlashes([i \in 1..Len(t) |-> Upper(t[i])]) \o USDT

\* ticker.upper().replace("/", ""), then "USDT" appended unless it ends the ticker
NormalizeTicker(t) ==
    LET u == DropSlashes([i \in 1..Len(t) |-> Upper(t[i])])
    IN  IF EndsWith(u, USDT) THEN u ELSE u \o USDT

RECURSIVE Strip(_)
\* str.strip() of the whitespace the model uses
Strip(s) ==
    IF s = <<>> THEN <<>>
    ELSE IF IsSpace(Head(s)) THEN Strip(Tail(s))
    ELSE IF IsSpace(s[Len(s)]) THEN Strip(SubSeq(s, 1, Len(s) - 1))
    ELSE s

RECURSIVE DigitsValue(_, _)
\* the value of the digits of s, underscores skipped
DigitsValue(s, acc) ==
    IF s = <<>> THEN acc
    ELSE IF Head(s) = "_" THEN DigitsValue(Tail(s), acc)
    ELSE DigitsValue(Tail(s), 10 * acc + DigitVal(Head(s)))

\* digits, single underscores allowed between two digits
IsIntBody(s) ==
    /\ s # <<>>
    /\ \A i \in 1..Len(s) : IsDigit(s[i]) \/ s[i] = "_"
    /\ IsDigit(s[1]) /\ IsDigit(s[Len(s)])
    /\ \A i \in 1..(Len(s) - 1) : ~(s[i] = "_" /\ s[i + 1] = "_")

\* int(s): <<>> when it raises ValueError, <<n>> otherwise
PyInt(s) ==
    LET t == Strip(s)
        signed == t # <<>> /\ Head(t) \in {"+", "-"}
        body == IF signed THEN Tail(t) ELSE t
    IN  IF ~IsIntBody(body) THEN <<>>
        ELSE IF signed /\ Head(t) = "-" THEN <<0 - DigitsValue(body, 0)>>
        ELSE <<DigitsValue(body, 0)>>

RECURSIVE PyStr(_)
\* str(n) of an integer n >= 0
PyStr(n) ==
    IF n < 10 THEN <<Digits[n + 1]>>
    ELSE PyStr(n \div 10) \o <<Digits[(n % 10) + 1]>>

PyMax(a, b) == IF a >= b THEN a ELSE b

PyMin(a, b) == IF a <= b THEN a ELSE b

(***************************************************************************)
(* The alert store (database.py).  A row of table alerts is a record       *)
(* [id, ticker, strike_price, direction, note, channel_id].                *)
(***************************************************************************)
\* CHECK(direction IN ('up', 'down', 'touch'))
Directions == {"up", "down", "touch"}

Ids(rows) == {r.id : r \in rows}

SetMax(S) == CHOOSE x \in S : \A y \in S : y <= x

RECURSIVE OrderById(_)
\* SELECT * FROM alerts ORDER BY id
OrderById(rows) ==
    IF rows = {} THEN <<>>
    ELSE LET first == CHOOSE r \in rows : \A q \in rows : r.id <= q.id
         IN  <<first>> \o OrderById(rows \ {first})

RECURSIVE OrderTickers(_)
\* ... ORDER BY ticker
OrderTickers(ts) ==
    IF ts = {} THEN <<>>
    ELSE LET first == CHOOSE t \in ts : \A u \in ts : t = u \/ StrLt(t, u)
         IN  <<first>> \o OrderTickers(ts \ {first})

\* a note column that is NULL (no Python string is this sequence)
NULL == <<"NULL">>

\* row_to_alert that blanks the note
row_to_alert_BlankNote(r) == [r EXCEPT !.note = <<>>]

\* _row_to_alert: the columns as they are, the note "" when it is NULL or ""
row_to_alert(r) == [r EXCEPT !.note = IF @ = NULL \/ @ = <<>> THEN <<>> ELSE @]

\* get_alert_by_id: <<>> for None
get_alert_by_id(rows, alert_id) ==
    IF \E r \in rows : r.id = alert_id
    THEN <<row_to_alert(CHOOSE r \in rows : r.id = alert_id)>>
    ELSE <<>>

\* add_alert on a table whose id is INTEGER PRIMARY KEY without AUTOINCREMENT:
\* the new id is one more than the largest id in the table
add_alert_RowidReuse(rows, sq, tk, strike_price, direction, note, channel_id) ==
    LET t == NormalizeTicker(tk)
        row_id == SetMax(Ids(rows) \cup {0}) + 1
        row == [id |-> row_id, ticker |-> t, strike_price |-> strike_price,
                direction |-> direction, note |-> note, channel_id |-> channel_id]
    IN  IF direction \in Directions
        THEN [raised |-> FALSE, rows |-> rows \cup {row}, seq |-> PyMax(sq, row_id),
              ret |-> get_alert_by_id(rows \cup {row}, row_id)]
        ELSE [raised |-> TRUE, rows |-> rows, seq |-> sq, ret |-> <<>>]

\* add_alert: the rows and sequence after the call, whether it raised
\* (sqlite3.IntegrityError from the CHECK constraint), and the Alert returned
add_alert(rows, sq, tk, strike_price, direction, note, channel_id) ==
    LET t == NormalizeTicker(tk)
        row_id == SetMax(Ids(rows) \cup {sq}) + 1
        row == [id |-> row_id, ticker |-> t, strike_price |-> strike_price,
                direction |-> direction, note |-> note, channel_id |-> channel_id]
    IN  IF direction \in Directions
        THEN [raised |-> FALSE, rows |-> rows \cup {row}, seq |-> row_id,
              ret |-> get_alert_by_id(rows \cup {row}, row_id)]
        ELSE [raised |-> TRUE, rows |-> rows, seq |-> sq, ret |-> <<>>]

get_all_alerts(rows) ==
    LET ordered == OrderById(rows)
    IN  [i \in 1..Len(ordered) |-> row_to_alert(ordered[i])]

get_alerts_for_ticker(rows, tk) ==
    get_all_alerts({r \in rows : r.ticker = NormalizeTicker(tk)})

\* remove_alert that deletes every row of the table
remove_alert_All(rows, alert_id) ==
    [rows |-> {}, ret |-> \E r \in rows : r.id = alert_id]

\* remove_alert whose DELETE is not committed
remove_alert_NoCommit(rows, alert_id) ==
    [rows |-> rows, ret |-> \E r \in rows : r.id = alert_id]

\* remove_alert: the rows after the call and the value returned (rowcount > 0)
remove_alert(rows, alert_id) ==
    [rows |-> {r \in rows : r.id # alert_id},
     ret |-> \E r \in rows : r.id = alert_id]

get_distinct_tickers(rows) == OrderTickers({r.ticker : r \in rows})

\* set_setting: INSERT OR REPLACE
set_setting(tbl, key, value) ==
    [k \in DOMAIN tbl \cup {key} |-> IF k = key THEN value ELSE tbl[k]]

\* get_setting: <<>> for None
get_setting(tbl, key) == IF key \in DOMAIN tbl THEN <<tbl[key]>> ELSE <<>>

\* Python's truth of an Optional[str]: neither None nor ""
Truthy(opt) == opt # <<>> /\ opt[1] # <<>>

(***************************************************************************)
(* The candle adapter (binance_client.py).  A response of get_klines is    *)
(* [raised, klines]: the call (or the parsing of its rows) raised, or the  *)
(* rows [high, low, close_time], oldest first.                             *)
(***************************************************************************)
\* fetch_latest_closed_candle that answers a failed call with a made-up candle
fetch_latest_closed_candle_MadeUpOnError(resp) ==
    IF resp.raised \/ resp.klines = <<>>
    THEN <<[high |-> 1, low |-> 1, close_time |-> 1]>>
    ELSE LET n == Len(resp.klines)
             k == IF n >= 2 THEN resp.klines[n - 1] ELSE resp.klines[n]
         IN  <<[high |-> k.high, low |-> k.low, close_time |-> k.close_time]>>

\* fetch_latest_closed_candle: <<>> for None
fetch_latest_closed_candle(resp) ==
    IF resp.raised THEN <<>>
    ELSE IF resp.klines = <<>> THEN <<>>
    ELSE LET n == Len(resp.klines)
             k == IF n >= 2 THEN resp.klines[n - 1] ELSE resp.klines[n]
         IN  <<[high |-> k.high, low |-> k.low, close_time |-> k.close_time]>>

(***************************************************************************)
(* The evaluation of one alert against one candle                          *)
(* (alert_service.py, check_alerts_and_send, the body of the alert loop).  *)
(***************************************************************************)
\* EvalHit with the touch rule excluding its bounds
EvalHit_StrictTouch(a, c) ==
    IF a.direction = "touch" \/ a.direction = ""
    THEN c.low < a.strike_price /\ a.strike_price < c.high
    ELSE IF a.direction = "up" /\ c.high >= a.strike_price THEN TRUE
    ELSE IF a.direction = "down" /\ c.low <= a.strike_price THEN TRUE
    ELSE FALSE

\* hit, as lines 57-70 leave it
EvalHit(a, c) ==
    IF a.direction = "touch" \/ a.direction = ""
    THEN c.low <= a.strike_price /\ a.strike_price <= c.high
    ELSE IF a.direction = "up" /\ c.high >= a.strike_price THEN TRUE
    ELSE IF a.direction = "down" /\ c.low <= a.strike_price THEN TRUE
    ELSE FALSE

\* EvalPrice reporting the strike price under every direction
EvalPrice_AlwaysStrike(a, c) ==
    IF a.direction = "touch" \/ a.direction = ""
    THEN IF c.low <= a.strike_price /\ a.strike_price <= c.high
         THEN a.strike_price ELSE 0
    ELSE IF a.direction = "up" /\ c.high >= a.strike_price THEN a.strike_price
    ELSE IF a.direction = "down" /\ c.low <= a.strike_price THEN a.strike_price
    ELSE 0

\* price_value, as lines 57-70 leave it (0 stands for the initial 0.0)
EvalPrice(a, c) ==
    IF a.direction = "touch" \/ a.direction = ""
    THEN IF c.low <= a.strike_price /\ a.strike_price <= c.high
         THEN a.strike_price ELSE 0
    ELSE IF a.direction = "up" /\ c.high >= a.strike_price THEN c.high
    ELSE IF a.direction = "down" /\ c.low <= a.strike_price THEN c.low
    ELSE 0

\* ResolveChannel that never looks at the alert's channel_id
ResolveChannel_IgnoresOverride(a, send_channel, fallback_channel_id, has_guild, guild_channels) ==
    IF fallback_channel_id # 0 /\ has_guild
    THEN IF fallback_channel_id \in guild_channels
         THEN fallback_channel_id ELSE send_channel
    ELSE send_channel

\* the channel lines 73-81 choose: has_guild is hasattr(send_channel, "guild")
\* and send_channel.guild, guild_channels the ids guild.get_channel finds
ResolveChannel(a, send_channel, fallback_channel_id, has_guild, guild_channels) ==
    IF a.channel_id # 0 /\ has_guild
    THEN IF a.channel_id \in guild_channels THEN a.channel_id ELSE send_channel
    ELSE IF fallback_channel_id # 0 /\ has_guild
    THEN IF fallback_channel_id \in guild_channels
         THEN fallback_channel_id ELSE send_channel
    ELSE send_channel

\* get_poll_interval without the clamp
get_poll_interval_Unclamped(raw) ==
    IF ~Truthy(raw) THEN DEFAULT_POLL_INTERVAL
    ELSE LET secs == PyInt(raw[1])
         IN  IF secs = <<>> THEN DEFAULT_POLL_INTERVAL ELSE secs[1]

\* _get_poll_interval, of the value get_setting returned
get_poll_interval(raw) ==
    IF ~Truthy(raw) THEN DEFAULT_POLL_INTERVAL
    ELSE LET secs == PyInt(raw[1])
         IN  IF secs = <<>> THEN DEFAULT_POLL_INTERVAL
             ELSE PyMax(MIN_POLL_INTERVAL, PyMin(MAX_POLL_INTERVAL, secs[1]))

(***************************************************************************)
(* What the environment supplies.                                          *)
(***************************************************************************)
Prices == 1..MaxPrice

Times == 1..MaxTime

\* ids of Discord channels
Channels == {1, 2}

BUSDT == <<"B">> \o USDT

EUSDT == <<"E">> \o USDT

\* tickers as users type them
RawTickers ==
    {<<"b">>, <<"E", "/", "U", "S", "D", "T">>, <<"b", "/", "u", "s", "d", "t">>}

\* one row of a get_klines response
Klines == {k \in [high : Prices, low : Prices, close_time : Times] : k.low <= k.high}

\* the responses of client.get_klines(symbol, 1m, limit=2): an exception, no
\* row, one row, or two rows of which the second is the later minute
Responses ==
    {[raised |-> TRUE, klines |-> <<>>], [raised |-> FALSE, klines |-> <<>>]}
    \cup {[raised |-> FALSE, klines |-> <<k>>] : k \in Klines}
    \cup {[raised |-> FALSE, klines |-> <<k[1], k[2]>>] :
            k \in {q \in Klines \X Klines : q[2].close_time = q[1].close_time + 1}}

\* table alerts as the process may find it at start: empty, or one row that an
\* earlier run left (any direction the schema admits)
InitRows ==
    [id : {1}, ticker : {BUSDT, EUSDT}, strike_price : {2},
     direction : Directions, note : {<<>>}, channel_id : {0, 2}]

NoSettings == [k \in {} |-> <<>>]

\* history of the direct store calls: no call yet, no add recorded, no id
\* seen (assigned: the ids seen in the table so far; earlier: those seen
\* before the last add)
NoOp == [name |-> "none", log |-> NoSettings, assigned |-> {}]

\* the alert_loop task at the top of its while loop, check_alerts_and_send not
\* entered
LoopInit ==
    [pc |-> "loop", channel_id |-> 0, send_channel |-> 0,
     interval |-> DEFAULT_POLL_INTERVAL,
     tickers |-> <<>>, ticker |-> <<>>, candle |-> <<>>, snapshot |-> <<>>,
     alert |-> <<>>, hit |-> FALSE, price_value |-> 0, channel |-> 0]

\* history: nothing is owed by the cycle after a failed delivery
NoOwed == [on |-> FALSE, alerts |-> {}, tickers |-> {}]

\* the history of the poll cycle.  track names the part of it that is kept
\* besides the first seven fields: "cycle" keeps response, resolvable, failed
\* and owed, "dedup" keeps stage, "settings" keeps start, "removal" keeps removal,
\* "none" none of them
HistInit ==
    [attempts |-> [i \in 1..MaxId |-> 0], delivery |-> "none", seen |-> NoSettings,
     due |-> {}, fresh |-> FALSE, twice |-> FALSE, last_fetch |-> "none",
     track |-> "none", response |-> "none", resolvable |-> {}, failed |-> {},
     owed |-> NoOwed, stage |-> 0, start |-> [channel_id |-> 0, interval |-> 0],
     removal |-> [by_cmd |-> {}, by_poll |-> {}, polled |-> {}]]

\* the process after init_db and before the first poll cycle
InitTracking(what) ==
    /\ alerts \in {{}} \cup {{r} : r \in InitRows}
    /\ seq = IF alerts = {} THEN 0 ELSE 1
    /\ settings = NoSettings
    /\ last_checked = NoSettings
    /\ loop = LoopInit
    /\ hist = [HistInit EXCEPT !.track = what]
    /\ op = NoOp

Init == InitTracking("none")

(***************************************************************************)
(* The alert_loop task (bot.py, alert_loop) and the poll cycle             *)
(* (alert_service.py, check_alerts_and_send).  asyncio runs one coroutine  *)
(* at a time: the task gives way to the command handlers only where it     *)
(* awaits.  store_ok is the set of outcomes a sqlite call of the task may  *)
(* have: TRUE it returns, FALSE it raises sqlite3.Error.                   *)
(***************************************************************************)
AwaitPcs == {"fetch_channel", "reminder", "send", "react", "sleep"}

\* check_alerts_and_send has returned or raised: its locals are gone
LeaveCheck(l) ==
    [l EXCEPT !.tickers = <<>>, !.ticker = <<>>, !.candle = <<>>,
              !.snapshot = <<>>, !.alert = <<>>, !.hit = FALSE,
              !.price_value = 0, !.channel = 0]

\* an exception reaches alert_loop's except Exception: logged, on to line 532
Caught(l) == [LeaveCheck(l) EXCEPT !.pc = "interval"]

\* an exception leaves alert_loop: the task ends
Escaped(l) == [LeaveCheck(l) EXCEPT !.pc = "dead"]

\* history: what the settings table holds when a cycle starts (line 509): the
\* announcement channel, 0 when none is set, and the poll interval
NoteStart(h, tbl) ==
    IF h.track # "settings" THEN h
    ELSE LET raw == get_setting(tbl, ANNOUNCEMENT_CHANNEL_KEY)
             id == IF Truthy(raw) THEN PyInt(raw[1]) ELSE <<0>>
         IN  [h EXCEPT !.start =
                [channel_id |-> IF id = <<>> THEN 0 ELSE id[1],
                 interval |-> get_poll_interval(get_setting(tbl, POLL_INTERVAL_KEY))]]

\* bot.py 509-528: the settings read, the channel lookup in the cache
LoopTop(store_ok) ==
    /\ loop.pc = "loop"
    /\ \E ok \in store_ok, cached \in BOOLEAN :
         LET channel_id_str == get_setting(settings, ANNOUNCEMENT_CHANNEL_KEY)
             parsed == IF Truthy(channel_id_str) THEN PyInt(channel_id_str[1]) ELSE <<0>>
         IN  loop' =
               IF ~ok \/ parsed = <<>> THEN Caught(loop)
               ELSE IF parsed[1] # 0
               THEN IF cached
                    THEN [loop EXCEPT !.channel_id = parsed[1],
                                      !.send_channel = parsed[1], !.pc = "check"]
                    ELSE [loop EXCEPT !.channel_id = parsed[1],
                                      !.send_channel = 0, !.pc = "fetch_channel"]
               ELSE [loop EXCEPT !.channel_id = 0, !.send_channel = 0, !.pc = "no_channel"]
    /\ hist' = NoteStart(hist, settings)
    /\ UNCHANGED <<alerts, seq, settings, last_checked, op>>

\* bot.py 517-524: the await of bot.fetch_channel ends
FetchChannelDone ==
    /\ loop.pc = "fetch_channel"
    /\ \E outcome \in {"found", "NotFound", "raised"} :
         loop' = CASE outcome = "found" ->
                        [loop EXCEPT !.send_channel = loop.channel_id, !.pc = "check"]
                   [] outcome = "NotFound" -> [loop EXCEPT !.pc = "interval"]
                   [] OTHER -> Caught(loop)
    /\ UNCHANGED <<alerts, seq, settings, last_checked, hist, op>>

\* bot.py 525-528: no channel set
NoChannel(store_ok) ==
    /\ loop.pc = "no_channel"
    /\ \E ok \in store_ok :
         loop' = IF ~ok THEN Caught(loop)
                 ELSE IF get_all_alerts(alerts) # <<>> THEN [loop EXCEPT !.pc = "reminder"]
                 ELSE [loop EXCEPT !.pc = "interval"]
    /\ UNCHANGED <<alerts, seq, settings, last_checked, hist, op>>

\* bot.py 262-277: _send_no_channel_reminder_if_due ends (it catches what
\* its sends raise)
ReminderDone ==
    /\ loop.pc = "reminder"
    /\ loop' = [loop EXCEPT !.pc = "interval"]
    /\ UNCHANGED <<alerts, seq, settings, last_checked, hist, op>>

\* alert_service.py 37-39
EnterCheck(store_ok) ==
    /\ loop.pc = "check"
    /\ \E ok \in store_ok :
         loop' = IF ~ok THEN Caught(loop)
                 ELSE IF get_distinct_tickers(alerts) = <<>>
                 THEN [loop EXCEPT !.pc = "interval"]
                 ELSE [loop EXCEPT !.tickers = get_distinct_tickers(alerts),
                                   !.pc = "for_ticker"]
    /\ UNCHANGED <<alerts, seq, settings, last_checked, hist, op>>

\* AlreadyChecked that also skips a close_time older than the marker
AlreadyChecked_NotNewer(checked, t, close_time) ==
    t \in DOMAIN checked /\ close_time <= checked[t]

\* AlreadyChecked with the comparison inverted
AlreadyChecked_Inverted(checked, t, close_time) ==
    ~(t \in DOMAIN checked /\ checked[t] = close_time)

\* AlreadyChecked that never finds the marker
AlreadyChecked_Never(checked, t, close_time) == FALSE

\* alert_service.py 47: the candle was checked before
AlreadyChecked(checked, t, close_time) ==
    t \in DOMAIN checked /\ checked[t] = close_time

\* MarkChecked that records nothing
MarkChecked_Forgets(checked, t, close_time) == checked

\* alert_service.py 49
MarkChecked(checked, t, close_time) ==
    [k \in DOMAIN checked \cup {t} |-> IF k = t THEN close_time ELSE checked[k]]

\* history: a candle was fetched for ticker t
NoteFetch(h, t, c, rows, processed) ==
    LET new == ~(t \in DOMAIN h.seen /\ h.seen[t] = c.close_time)
        mine == {r \in rows : r.ticker = t}
    IN  [h EXCEPT !.seen = [k \in DOMAIN h.seen \cup {t} |->
                                IF k = t THEN c.close_time ELSE h.seen[k]],
                  !.due = IF new THEN {r \in @ : r.ticker # t} \cup mine ELSE @,
                  !.fresh = new,
                  !.last_fetch = IF processed THEN "processed" ELSE "skipped"]

\* alert_service.py 54: the alerts of ticker t among all alerts
SelectForTicker(rows, t) ==
    SelectSeq(get_all_alerts(rows), LAMBDA a : a.ticker = t)

\* history: ticker t was reached by the loop of line 41 and get_klines gave
\* resp for it
NoteResponse(h, t, resp) ==
    IF h.track # "cycle" THEN h
    ELSE [h EXCEPT !.response = IF resp.raised THEN "raised"
                                ELSE IF resp.klines = <<>> THEN "empty" ELSE "rows",
                   !.owed.tickers = @ \ {t}]

\* history: how far the close_times processed for BUSDT have gone through
\* MaxTime, MaxTime - 1, MaxTime
NoteStage(h, t, close_time) ==
    IF h.track # "dedup" \/ t # BUSDT THEN h
    ELSE [h EXCEPT !.stage =
            IF @ = 0 /\ close_time = MaxTime THEN 1
            ELSE IF @ = 1 /\ close_time = MaxTime - 1 THEN 2
            ELSE IF @ = 2 /\ close_time = MaxTime THEN 3
            ELSE @]

\* alert_service.py 41-54: the next ticker, its candle, the dedup check, the
\* alerts of the ticker
ForTicker(store_ok) ==
    /\ loop.pc = "for_ticker"
    /\ IF loop.tickers = <<>>
       THEN /\ loop' = [LeaveCheck(loop) EXCEPT !.pc = "interval"]
            /\ UNCHANGED <<last_checked, hist>>
       ELSE \E resp \in Responses, ok \in store_ok :
              LET t == Head(loop.tickers)
                  c == fetch_latest_closed_candle(resp)
                  next == [loop EXCEPT !.tickers = Tail(loop.tickers), !.ticker = t,
                                       !.candle = c]
              IN  IF c = <<>>
                  THEN /\ loop' = next
                       /\ hist' = NoteResponse([hist EXCEPT !.last_fetch = "failed"], t, resp)
                       /\ UNCHANGED last_checked
                  ELSE IF AlreadyChecked(last_checked, t, c[1].close_time)
                  THEN /\ loop' = next
                       /\ hist' = NoteResponse(NoteFetch(hist, t, c[1], alerts, FALSE), t, resp)
                       /\ UNCHANGED last_checked
                  ELSE /\ last_checked' = MarkChecked(last_checked, t, c[1].close_time)
                       /\ hist' = NoteStage(NoteResponse(NoteFetch(hist, t, c[1], alerts, TRUE),
                                                         t, resp),
                                            t, c[1].close_time)
                       /\ loop' =
                            IF ~ok THEN Caught(loop)
                            ELSE [next EXCEPT
                                    !.snapshot = SelectForTicker(alerts, t),
                                    !.alert = <<>>, !.hit = FALSE, !.price_value = 0,
                                    !.pc = "for_alert"]
    /\ UNCHANGED <<alerts, seq, settings, op>>

\* history: alert a was evaluated
NoteEval(h, a) ==
    [h EXCEPT !.due = @ \ {a}, !.twice = @ \/ ~h.fresh, !.delivery = "none"]

\* history: channel.send was called for alert a
NoteSend(h, a) ==
    [h EXCEPT !.attempts[a.id] = PyMin(@ + 1, MaxAttempts)]

\* history: alert a was evaluated; visible are the channel ids that
\* send_channel.guild.get_channel finds when a is hit (none without a guild)
NoteRoute(h, a, visible) ==
    IF h.track # "cycle" THEN h
    ELSE [h EXCEPT !.resolvable = visible, !.owed.alerts = @ \ {a.id}]

\* history: the delivery of the alert in l.alert raised, with l.snapshot and
\* l.tickers left to do in the cycle
NoteFailure(h, l) ==
    IF h.track # "cycle" THEN [h EXCEPT !.delivery = "failed"]
    ELSE [h EXCEPT !.delivery = "failed",
                   !.resolvable = {},
                   !.failed = @ \cup {l.alert[1].id},
                   !.owed = [on |-> TRUE,
                             alerts |-> @.alerts \cup {l.snapshot[i].id : i \in 1..Len(l.snapshot)},
                             tickers |-> @.tickers \cup {l.tickers[i] : i \in 1..Len(l.tickers)}]]

\* alert_service.py 56-85: the next alert is evaluated; a hit gets its channel
\* and its embed, and channel.send is awaited
ForAlert ==
    /\ loop.pc = "for_alert"
    /\ IF loop.snapshot = <<>>
       THEN /\ loop' = [loop EXCEPT !.pc = "for_ticker"]
            /\ UNCHANGED hist
       ELSE LET a == Head(loop.snapshot)
                c == loop.candle[1]
                next == [loop EXCEPT !.snapshot = Tail(loop.snapshot), !.alert = <<a>>,
                                     !.hit = EvalHit(a, c),
                                     !.price_value = EvalPrice(a, c)]
            IN  IF EvalHit(a, c)
                THEN \E has_guild \in BOOLEAN, guild_channels \in SUBSET Channels :
                       /\ loop' = [next EXCEPT
                                     !.channel = ResolveChannel(a, loop.send_channel,
                                                    loop.channel_id, has_guild,
                                                    guild_channels),
                                     !.pc = "send"]
                       /\ hist' = NoteRoute(NoteSend(NoteEval(hist, a), a), a,
                                            IF has_guild THEN guild_channels ELSE {})
                ELSE /\ loop' = next
                     /\ hist' = NoteRoute(NoteEval(hist, a), a, {})
    /\ UNCHANGED <<alerts, seq, settings, last_checked, op>>

\* AfterDeliveryError without the except clause: the exception leaves
\* check_alerts_and_send
AfterDeliveryError_Propagates(l) == Caught(l)

\* alert_service.py 87-88: what channel.send or msg.add_reaction raised is
\* logged, and line 90 is next
AfterDeliveryError(l) == [l EXCEPT !.pc = "retire"]

\* alert_service.py 85: the await of channel.send ends
SendDone ==
    /\ loop.pc = "send"
    /\ \E sent \in BOOLEAN :
         IF sent
         THEN /\ loop' = [loop EXCEPT !.pc = "react"]
              /\ hist' = [hist EXCEPT !.resolvable = {}]
         ELSE /\ loop' = AfterDeliveryError(loop)
              /\ hist' = NoteFailure(hist, loop)
    /\ UNCHANGED <<alerts, seq, settings, last_checked, op>>

\* alert_service.py 86: the await of msg.add_reaction ends
ReactDone ==
    /\ loop.pc = "react"
    /\ \E reacted \in BOOLEAN :
         IF reacted
         THEN /\ loop' = [loop EXCEPT !.pc = "retire"]
              /\ hist' = [hist EXCEPT !.delivery = "ok"]
         ELSE /\ loop' = AfterDeliveryError(loop)
              /\ hist' = NoteFailure(hist, loop)
    /\ UNCHANGED <<alerts, seq, settings, last_checked, op>>

\* history: remove_alert(alert_id) returned ret to who ("cmd": a remove
\* command, "poll": line 90 of the poll cycle)
NoteRemoval(h, who, alert_id, ret) ==
    IF h.track # "removal" THEN h
    ELSE [h EXCEPT !.removal =
            [by_cmd |-> IF who = "cmd" /\ ret THEN @.by_cmd \cup {alert_id} ELSE @.by_cmd,
             by_poll |-> IF who = "poll" /\ ret THEN @.by_poll \cup {alert_id} ELSE @.by_poll,
             polled |-> IF who = "poll" THEN @.polled \cup {alert_id} ELSE @.polled]]

\* alert_service.py 90-97
Retire(store_ok) ==
    /\ loop.pc = "retire"
    /\ \E ok \in store_ok :
         IF ok
         THEN /\ alerts' = remove_alert(alerts, loop.alert[1].id).rows
              /\ loop' = [loop EXCEPT !.pc = "for_alert"]
              /\ hist' = NoteRemoval(hist, "poll", loop.alert[1].id,
                                     remove_alert(alerts, loop.alert[1].id).ret)
         ELSE /\ loop' = Caught(loop)
              /\ UNCHANGED <<alerts, hist>>
    /\ UNCHANGED <<seq, settings, last_checked, op>>

\* bot.py 532: outside the try of lines 510-530
ReadInterval(store_ok) ==
    /\ loop.pc = "interval"
    /\ \E ok \in store_ok :
         loop' = IF ~ok THEN Escaped(loop)
                 ELSE [loop EXCEPT
                         !.interval = get_poll_interval(get_setting(settings, POLL_INTERVAL_KEY)),
                         !.pc = "sleep"]
    /\ UNCHANGED <<alerts, seq, settings, last_checked, hist, op>>

\* history: a new cycle starts; what was noted of the last one is dropped
NoteCycle(h) ==
    [h EXCEPT !.due = {}, !.fresh = FALSE, !.delivery = "none", !.last_fetch = "none",
              !.response = "none", !.resolvable = {}, !.owed = NoOwed]

\* bot.py 533 and 509: asyncio.sleep(interval) ends, the bot is not closed
Wake ==
    /\ loop.pc = "sleep"
    /\ loop' = [loop EXCEPT !.pc = "loop"]
    /\ hist' = NoteCycle(hist)
    /\ UNCHANGED <<alerts, seq, settings, last_checked, op>>

\* the steps of the alert_loop task
Poll(store_ok) ==
    \/ LoopTop(store_ok)
    \/ FetchChannelDone
    \/ NoChannel(store_ok)
    \/ ReminderDone
    \/ EnterCheck(store_ok)
    \/ ForTicker(store_ok)
    \/ ForAlert
    \/ SendDone
    \/ ReactDone
    \/ Retire(store_ok)
    \/ ReadInterval(store_ok)
    \/ Wake

(***************************************************************************)
(* The command handlers (bot.py).  Each does its store call before its     *)
(* first await, so a command is one step; it runs while the alert_loop     *)
(* task awaits (or after the task has ended).                              *)
(***************************************************************************)
CommandsRun == loop.pc \in AwaitPcs \cup {"dead"}

\* prices as users type them
StrikeInputs == {0 - 1, 0, 2}

\* the argument of !setinterval as users type it
IntervalTokens == {<<"4", "5">>, <<"2", "9">>, <<"3", "0", "1">>, <<"x">>}

\* bot.py 69-97 (/addalert) and 353-383 (!addalert): the rows and sequence
\* the handler leaves
addalert(rows, sq, tk, strike_price, note) ==
    IF strike_price <= 0 THEN [rows |-> rows, seq |-> sq]
    ELSE LET r == add_alert(rows, sq, tk, strike_price, "touch", note, 0)
         IN  [rows |-> r.rows, seq |-> r.seq]

CmdAddAlert ==
    /\ CommandsRun
    /\ seq < MaxId
    /\ \E tk \in RawTickers, strike_price \in StrikeInputs :
         /\ alerts' = addalert(alerts, seq, tk, strike_price, <<>>).rows
         /\ seq' = addalert(alerts, seq, tk, strike_price, <<>>).seq
    /\ UNCHANGED <<settings, last_checked, loop, hist, op>>

\* bot.py 100-111 (/removealert) and 472-485 (!removealert)
CmdRemoveAlert ==
    /\ CommandsRun
    /\ \E alert_id \in 1..MaxId :
         /\ alerts' = remove_alert(alerts, alert_id).rows
         /\ hist' = NoteRemoval(hist, "cmd", alert_id, remove_alert(alerts, alert_id).ret)
    /\ UNCHANGED <<seq, settings, last_checked, loop, op>>

\* bot.py 132-148 (/setchannel) and 333-338 (!setchannel)
CmdSetChannel ==
    /\ CommandsRun
    /\ \E c \in {1} :
         settings' = set_setting(settings, ANNOUNCEMENT_CHANNEL_KEY, PyStr(c))
    /\ UNCHANGED <<alerts, seq, last_checked, loop, hist, op>>

\* setinterval without the test of the range
setinterval_NoRangeCheck(tbl, token) ==
    LET seconds == PyInt(token)
    IN  IF seconds = <<>> THEN tbl
        ELSE IF seconds[1] < 0 THEN tbl
        ELSE set_setting(tbl, POLL_INTERVAL_KEY, PyStr(seconds[1]))

\* bot.py 453-464: which reply !setinterval <token> sends
setinterval_reply(token) ==
    LET seconds == PyInt(token)
    IN  IF seconds = <<>> THEN "Interval must be a number."
        ELSE IF seconds[1] < MIN_POLL_INTERVAL \/ seconds[1] > MAX_POLL_INTERVAL
        THEN "Interval must be between"
        ELSE "Polling interval set to"

\* bot.py 453-463: the settings table !setinterval <token> leaves
setinterval(tbl, token) ==
    LET seconds == PyInt(token)
    IN  IF seconds = <<>> THEN tbl
        ELSE IF seconds[1] < MIN_POLL_INTERVAL \/ seconds[1] > MAX_POLL_INTERVAL THEN tbl
        ELSE set_setting(tbl, POLL_INTERVAL_KEY, PyStr(seconds[1]))

CmdSetInterval ==
    /\ CommandsRun
    /\ \E token \in IntervalTokens :
         settings' = setinterval(settings, token)
    /\ UNCHANGED <<alerts, seq, last_checked, loop, hist, op>>

Command ==
    \/ CmdAddAlert
    \/ CmdRemoveAlert
    \/ CmdSetChannel
    \/ CmdSetInterval

(***************************************************************************)
(* The bot with a store whose calls return.                                *)
(***************************************************************************)
Next == Poll({TRUE}) \/ Command

Spec == Init /\ [][Next]_vars

(***************************************************************************)
(* The bot with a store whose calls in the alert_loop task may raise.      *)
(***************************************************************************)
NextStoreErr == Poll(BOOLEAN) \/ Command

SpecStoreErr == Init /\ [][NextStoreErr]_vars

(***************************************************************************)
(* The bot under the scheduling of asyncio: an await of the alert_loop     *)
(* task that can end does end, and the task then runs to its next await.   *)
(***************************************************************************)
FairSpec == Init /\ [][Next]_vars /\ WF_vars(Poll({TRUE}))

(***************************************************************************)
(* The same bot, with more of the history of each poll cycle kept.         *)
(***************************************************************************)
SpecCycle == InitTracking("cycle") /\ [][Next]_vars

(***************************************************************************)
(* The same bot, with the history of the close_times processed kept.       *)
(***************************************************************************)
SpecDedup == InitTracking("dedup") /\ [][Next]_vars

(***************************************************************************)
(* The same bot, with the settings at the start of each cycle kept.        *)
(***************************************************************************)
SpecSettings == InitTracking("settings") /\ [][Next]_vars

(***************************************************************************)
(* The same bot, with what each remove_alert call returned kept.           *)
(***************************************************************************)
SpecRemoval == InitTracking("removal") /\ [][Next]_vars

(***************************************************************************)
(* The store called directly (database.py), with any arguments.            *)
(***************************************************************************)
\* directions a caller may pass; "omitted" is a call without the argument
DirectionInputs == Directions \cup {"", "sideways", "omitted"}

\* the default of add_alert's parameter direction
DefaultDirection == "touch"

\* notes a caller may pass
Notes == {<<>>, <<"n">>}

\* history: the add recorded for each id since its alert was added, dropped
\* when the alert is removed
LogAdd(log, r, tk, strike_price, direction, note) ==
    IF r.raised THEN log
    ELSE [i \in DOMAIN log \cup {r.ret[1].id} |->
            IF i = r.ret[1].id
            THEN [tk |-> tk, strike_price |-> strike_price, direction |-> direction,
                  note |-> note, ret |-> r.ret[1]]
            ELSE log[i]]

StoreAdd ==
    /\ seq < MaxId
    /\ \E tk \in RawTickers, strike_price \in StrikeInputs,
          direction \in DirectionInputs, note \in Notes, channel_id \in {0, 2} :
         LET passed == IF direction = "omitted" THEN DefaultDirection ELSE direction
             r == add_alert(alerts, seq, tk, strike_price, passed, note, channel_id)
         IN  /\ alerts' = r.rows
             /\ seq' = r.seq
             /\ op' = [name |-> "add_alert", strike_price |-> strike_price,
                       direction |-> direction, raised |-> r.raised, ret |-> r.ret,
                       before |-> get_all_alerts(alerts),
                       after |-> get_all_alerts(r.rows),
                       log |-> LogAdd(op.log, r, tk, strike_price, passed, note),
                       earlier |-> op.assigned \cup Ids(alerts),
                       assigned |-> op.assigned \cup Ids(alerts) \cup Ids(r.rows)]
    /\ UNCHANGED <<settings, last_checked, loop, hist>>

StoreRemove ==
    /\ \E alert_id \in 1..MaxId :
         LET r == remove_alert(alerts, alert_id)
             again == op.name = "remove_alert" /\ op.alert_id = alert_id
         IN  /\ alerts' = r.rows
             /\ op' = [name |-> "remove_alert", alert_id |-> alert_id,
                       raised |-> FALSE, ret |-> r.ret,
                       before |-> get_all_alerts(alerts),
                       after |-> get_all_alerts(r.rows),
                       again |-> again,
                       first_ret |-> IF again /\ ~op.again THEN op.ret ELSE FALSE,
                       log |-> [i \in DOMAIN op.log \ {alert_id} |-> op.log[i]],
                       assigned |-> op.assigned \cup Ids(alerts)]
    /\ UNCHANGED <<seq, settings, last_checked, loop, hist>>

NextStore == StoreAdd \/ StoreRemove

SpecStore == Init /\ [][NextStore]_vars

(***************************************************************************)
(* _get_poll_interval on every value the settings table may hold: the      *)
(* alert_loop task is at line 532.                                         *)
(***************************************************************************)
IntervalChars == {"0", "3", "5", "-", "+", " ", "_", "x"}

RECURSIVE StringsUpTo(_)
\* the strings over IntervalChars of length at most n
StringsUpTo(n) ==
    IF n = 0 THEN {<<>>}
    ELSE LET shorter == StringsUpTo(n - 1)
         IN  shorter \cup {Append(s, c) : s \in shorter, c \in IntervalChars}

InitInterval ==
    /\ alerts = {}
    /\ seq = 0
    /\ settings \in {NoSettings}
                    \cup {set_setting(NoSettings, POLL_INTERVAL_KEY, raw) :
                            raw \in StringsUpTo(MaxRawLen)}
    /\ last_checked = NoSettings
    /\ loop = [LoopInit EXCEPT !.pc = "interval"]
    /\ hist = HistInit
    /\ op = NoOp

NextInterval == ReadInterval({TRUE}) \/ Wake

SpecInterval == InitInterval /\ [][NextInterval]_vars

(***************************************************************************)
(* !setinterval with every argument (bot.py, on_message): an argument is   *)
(* an element of message.content.split(), so it is not empty and holds no  *)
(* white space.                                                            *)
(***************************************************************************)
IntervalArguments ==
    {s \in StringsUpTo(MaxRawLen) : s # <<>> /\ \A i \in 1..Len(s) : ~IsSpace(s[i])}

InitSetInterval ==
    /\ alerts = {}
    /\ seq = 0
    /\ settings = NoSettings
    /\ last_checked = NoSettings
    /\ loop = LoopInit
    /\ hist = HistInit
    /\ op = NoOp

\* bot.py 445-464 with an argument
TypeSetInterval ==
    /\ \E token \in IntervalArguments :
         /\ settings' = setinterval(settings, token)
         /\ op' = [name |-> "setinterval", token |-> token,
                   reply |-> setinterval_reply(token), before |-> settings]
    /\ UNCHANGED <<alerts, seq, last_checked, loop, hist>>

\* bot.py 446-452 without an argument: the usage reply
TypeSetIntervalBare ==
    /\ op' = [name |-> "setinterval", token |-> <<>>,
              reply |-> "Current polling interval", before |-> settings]
    /\ UNCHANGED <<alerts, seq, settings, last_checked, loop, hist>>

NextSetInterval == TypeSetInterval \/ TypeSetIntervalBare

SpecSetInterval == InitSetInterval /\ [][NextSetInterval]_vars

(***************************************************************************)
(* fetch_latest_closed_candle on every response of get_klines              *)
(* (binance_client.py).  A request is the response together with the time  *)
(* of the fetch: Binance lists the klines oldest first, and every row but  *)
(* the last is of a minute that is over; the last row is the newest        *)
(* bucket, still forming or just closed.                                   *)
(***************************************************************************)
\* the times at which a fetch may happen
Instants == 1..(MaxTime + 1)

Requests ==
    {q \in [resp : Responses, now : Instants] :
        \A i \in 1..(Len(q.resp.klines) - 1) : q.resp.klines[i].close_time < q.now}

InitFetch ==
    /\ alerts = {}
    /\ seq = 0
    /\ settings = NoSettings
    /\ last_checked = NoSettings
    /\ loop = LoopInit
    /\ hist = HistInit
    /\ op = NoOp

\* binance_client.py 28-68 on the response of the request
FetchCandle ==
    /\ op.name = "get_klines"
    /\ op' = [name |-> "fetch_latest_closed_candle", resp |-> op.resp, now |-> op.now,
              ret |-> fetch_latest_closed_candle(op.resp)]
    /\ UNCHANGED <<alerts, seq, settings, last_checked, loop, hist>>

\* the next call, at any time and with any response
NextRequest ==
    /\ op.name \in {"none", "fetch_latest_closed_candle"}
    /\ \E q \in Requests : op' = [name |-> "get_klines", resp |-> q.resp, now |-> q.now]
    /\ UNCHANGED <<alerts, seq, settings, last_checked, loop, hist>>

NextFetch == FetchCandle \/ NextRequest

SpecFetch == InitFetch /\ [][NextFetch]_vars

(***************************************************************************)
(* The pagination view of the alert list (bot.py, ListAlertsView).  A line *)
(* of the list is its length, a page is the length of its body.  The view  *)
(* is the record held in op: pages, author_id, current and the disabled    *)
(* flags of its two buttons.                                               *)
(***************************************************************************)
MaxLines == 50

MAX_PAGE_CHARS == 1950

NO_CHANNEL_REMINDER_LEN == 98

\* bot.py 158-168: the shortest line ("**#1** B/USDT @ $1.00") and a line with
\* a truncated note ("**#100** BTC/USDT @ $100,000.00 -- " and 46 characters)
LineLengths == {21, 80}

\* the lists of lines _build_alert_lines may give for a store that is not empty
LineLists == {[i \in 1..n |-> l] : n \in 1..MaxLines, l \in LineLengths}

\* the Discord users who may run the command and press the buttons
Users == {1, 2}

RECURSIVE PackFrom(_, _, _, _, _, _)
\* bot.py 180-194: the loop over lines[i..] and the closing of the last page
PackFrom(lines, i, pages, current_lines, current_len, add_no_channel) ==
    LET max_body == MAX_PAGE_CHARS - 45
    IN  IF i > Len(lines)
        THEN IF current_lines > 0
             THEN LET body == current_len - 1
                  IN  IF add_no_channel /\ body + NO_CHANNEL_REMINDER_LEN <= max_body
                      THEN Append(pages, body + NO_CHANNEL_REMINDER_LEN)
                      ELSE Append(pages, body)
             ELSE pages
        ELSE LET line_len == lines[i] + 1
             IN  IF current_len + line_len > max_body /\ current_lines > 0
                 THEN PackFrom(lines, i + 1, Append(pages, current_len - 1),
                               1, line_len, add_no_channel)
                 ELSE PackFrom(lines, i + 1, pages, current_lines + 1,
                               current_len + line_len, add_no_channel)

\* bot.py 171-196
pack_into_pages(lines, add_no_channel) == PackFrom(lines, 1, <<>>, 0, 0, add_no_channel)

\* bot.py 219-221
update_buttons(view) ==
    [view EXCEPT !.prev_disabled = view.current <= 0,
                 !.next_disabled = view.current >= Len(view.pages) - 1]

\* bot.py 202-213
ListAlertsView(pages, author_id) ==
    update_buttons([name |-> "ListAlertsView", pages |-> pages, author_id |-> author_id,
                    current |-> 0, prev_disabled |-> FALSE, next_disabled |-> FALSE,
                    user |-> author_id, before |-> 0])

\* bot.py 223-231
prev_button(view, user) ==
    IF user # view.author_id THEN view
    ELSE IF view.current > 0
    THEN update_buttons([view EXCEPT !.current = view.current - 1])
    ELSE view

\* next_button moving on whatever the page
next_button_NoBound(view, user) ==
    IF user # view.author_id THEN view
    ELSE update_buttons([view EXCEPT !.current = view.current + 1])

\* bot.py 233-242
next_button(view, user) ==
    IF user # view.author_id THEN view
    ELSE IF view.current < Len(view.pages) - 1
    THEN update_buttons([view EXCEPT !.current = view.current + 1])
    ELSE view

\* bot.py 122 and 349: the pages the list command hands to the view
PageLists ==
    {pack_into_pages(lines, add_no_channel) :
        lines \in LineLists, add_no_channel \in BOOLEAN}

ViewOps == {"ListAlertsView", "prev_button", "next_button"}

InitView ==
    /\ alerts = {}
    /\ seq = 0
    /\ settings = NoSettings
    /\ last_checked = NoSettings
    /\ loop = LoopInit
    /\ hist = HistInit
    /\ op = NoOp

\* bot.py 114-129 and 340-350: the list command on a store that is not empty
OpenView ==
    /\ \E pages \in PageLists, author_id \in Users :
         op' = ListAlertsView(pages, author_id)
    /\ UNCHANGED <<alerts, seq, settings, last_checked, loop, hist>>

\* a press of the up button by any user
ClickPrev ==
    /\ op.name \in ViewOps
    /\ \E user \in Users :
         op' = [prev_button(op, user) EXCEPT !.name = "prev_button", !.user = user,
                                             !.before = op.current]
    /\ UNCHANGED <<alerts, seq, settings, last_checked, loop, hist>>

\* a press of the down button by any user
ClickNext ==
    /\ op.name \in ViewOps
    /\ \E user \in Users :
         op' = [next_button(op, user) EXCEPT !.name = "next_button", !.user = user,
                                             !.before = op.current]
    /\ UNCHANGED <<alerts, seq, settings, last_checked, loop, hist>>

\* bot.py 244-251: after the timeout the buttons are disabled and the view
\* takes no more presses
ViewTimeout ==
    /\ op.name \in ViewOps
    /\ op' = [op EXCEPT !.name = "on_timeout", !.prev_disabled = TRUE,
                        !.next_disabled = TRUE]
    /\ UNCHANGED <<alerts, seq, settings, last_checked, loop, hist>>

NextView == OpenView \/ ClickPrev \/ ClickNext \/ ViewTimeout

SpecView == InitView /\ [][NextView]_vars

(***************************************************************************)
(* Claims.                                                                 *)
(***************************************************************************)
\* the alert_loop task is in the alert loop of check_alerts_and_send and
\* loop.alert holds the alert it evaluated last against loop.candle
Evaluated ==
    /\ loop.pc \in {"for_alert", "send", "react", "retire"}
    /\ loop.alert # <<>>

\* channel.send was called for the alert evaluated last
Dispatched == hist.attempts[loop.alert[1].id] > 0

\* C1: an alert whose direction is touch (or unset) is treated as hit by the
\* poll cycle exactly when candle.low <= strike_price <= candle.high, both
\* bounds included, and the price reported for it is the strike price.
C1_TouchRule ==
    (Evaluated /\ loop.alert[1].direction \in {"touch", ""}) =>
        LET a == loop.alert[1]
            c == loop.candle[1]
            inside == c.low <= a.strike_price /\ a.strike_price <= c.high
        IN  /\ loop.hit <=> inside
            /\ Dispatched <=> inside
            /\ inside => loop.price_value = a.strike_price

\* a touch alert whose strike is the candle's high, above its low, is being sent
C1_Witness ==
    /\ loop.pc = "send"
    /\ loop.alert[1].direction = "touch"
    /\ loop.alert[1].strike_price = loop.candle[1].high
    /\ loop.candle[1].low < loop.candle[1].high
    /\ loop.price_value = loop.alert[1].strike_price

\* C2: an up alert is hit exactly when candle.high >= strike_price and reports
\* candle.high; a down alert is hit exactly when candle.low <= strike_price and
\* reports candle.low; every alert has exactly one of the three directions, so
\* exactly one rule is applied to it.
C2_UpDownRule ==
    Evaluated =>
        LET a == loop.alert[1]
            c == loop.candle[1]
        IN  /\ Cardinality({d \in {"touch", "up", "down"} : a.direction = d}) = 1
            /\ a.direction = "up" =>
                 /\ loop.hit <=> c.high >= a.strike_price
                 /\ Dispatched <=> c.high >= a.strike_price
                 /\ loop.hit => loop.price_value = c.high
            /\ a.direction = "down" =>
                 /\ loop.hit <=> c.low <= a.strike_price
                 /\ Dispatched <=> c.low <= a.strike_price
                 /\ loop.hit => loop.price_value = c.low

\* a down alert is being sent with the candle's low, its strike below the high
C2_Witness ==
    /\ loop.pc = "send"
    /\ loop.alert[1].direction = "down"
    /\ loop.alert[1].strike_price < loop.candle[1].high
    /\ loop.price_value = loop.candle[1].low

\* the delivery of alert i is under way: from the call of channel.send to
\* the removal that follows the try statement
Delivering(i) ==
    /\ loop.pc \in {"send", "react", "retire"}
    /\ loop.alert[1].id = i

\* C3: an alert that hit is absent from the store once its delivery attempt
\* has finished, whether the delivery succeeded or raised.
C3_RetiredAfterDelivery ==
    \A i \in 1..MaxId :
        (hist.attempts[i] > 0 /\ ~Delivering(i)) => i \notin Ids(alerts)

\* the delivery of an alert raised, and the alert is gone
C3_Witness ==
    /\ loop.pc = "for_alert"
    /\ loop.alert # <<>>
    /\ loop.hit
    /\ hist.delivery = "failed"
    /\ loop.alert[1].id \notin Ids(alerts)

\* C4: no alert id has more than one notification delivery attempted for it,
\* whatever the poll cycles, candles, commands and delivery or store failures.
C4_AtMostOnce == \A i \in 1..MaxId : hist.attempts[i] <= 1

\* one step of the alert_loop task from line 41 in which a candle is fetched
\* for the next ticker: the ticker is skipped exactly when the candle's
\* close_time is the marker stored for it, and is processed, with the marker
\* set to that close_time in the same step, otherwise; and it is processed
\* exactly when that close_time is not the one fetched last for the ticker
C5_Step ==
    (loop.pc = "for_ticker" /\ loop.tickers # <<>> /\ loop'.candle # <<>>) =>
        LET t == Head(loop.tickers)
            close_time == loop'.candle[1].close_time
            marked == t \in DOMAIN last_checked /\ last_checked[t] = close_time
            processed == hist'.last_fetch = "processed"
        IN  /\ marked =>
                /\ last_checked' = last_checked
                /\ loop'.pc = "for_ticker"
                /\ loop'.snapshot = <<>>
                /\ ~processed
            /\ ~marked =>
                /\ t \in DOMAIN last_checked'
                /\ last_checked'[t] = close_time
                /\ \A u \in DOMAIN last_checked' \ {t} :
                      u \in DOMAIN last_checked /\ last_checked'[u] = last_checked[u]
                /\ loop'.pc = "for_alert"
                /\ processed
            /\ processed <=> ~(t \in DOMAIN hist.seen /\ hist.seen[t] = close_time)

\* C5: dedup test-and-set: a symbol whose fetched close_time equals its stored
\* marker is skipped; a symbol that is processed has its marker set to that
\* close_time in the same step; so a (symbol, close_time) pair is processed
\* once until a different close_time has been seen for the symbol.
C5_DedupTestAndSet == [][C5_Step]_vars

\* a candle was fetched whose close_time is the stored marker, and skipped
C5_Witness ==
    /\ loop.pc = "for_ticker"
    /\ hist.last_fetch = "skipped"
    /\ loop.candle # <<>>
    /\ last_checked[loop.ticker] = loop.candle[1].close_time

\* C6: when two poll cycles fetch the same candle for a symbol, its alerts are
\* evaluated against that candle once: the alerts in the store when the candle
\* was first fetched are all evaluated in that cycle, and no alert is
\* evaluated in a cycle that fetched the candle again.
C6_EvaluatedOnce ==
    /\ ~hist.twice
    /\ loop.pc \notin {"for_alert", "send", "react", "retire"} => hist.due = {}

\* the candle fetched last for a ticker was fetched again and skipped, while
\* an alert that was evaluated against it is still in the store
C6_Witness ==
    /\ hist.last_fetch = "skipped"
    /\ ~hist.fresh
    /\ loop.ticker \in DOMAIN hist.seen
    /\ hist.seen[loop.ticker] = loop.candle[1].close_time
    /\ \E r \in alerts : r.ticker = loop.ticker /\ r.id = 1 /\ seq = 1

\* the direction rule of alert a holds of candle c
RuleHolds(a, c) ==
    \/ a.direction = "touch" /\ c.low <= a.strike_price /\ a.strike_price <= c.high
    \/ a.direction = "up" /\ c.high >= a.strike_price
    \/ a.direction = "down" /\ c.low <= a.strike_price

\* a candle not yet processed for its ticker has just been fetched, and alert i
\* is in the store, of that ticker, with its direction rule holding of the candle
Triggered(i) ==
    /\ \/ loop.pc = "for_alert" /\ loop.alert = <<>>
       \/ loop.pc = "for_ticker" /\ hist.last_fetch = "skipped"
    /\ hist.fresh
    /\ \E r \in alerts :
         r.id = i /\ r.ticker = loop.ticker /\ RuleHolds(r, loop.candle[1])

\* a notification for alert i was attempted and the alert is out of the store
Notified(i) == hist.attempts[i] > 0 /\ i \notin Ids(alerts)

\* C7: once a closed candle not yet processed for an alert's symbol is fetched
\* and satisfies the alert's direction rule, a notification for the alert is
\* eventually attempted and the alert is eventually out of the store.
C7_EventuallyNotified == \A i \in 1..MaxId : Triggered(i) ~> Notified(i)

\* alert 2, added by a command, is triggered by an up-to-then unseen candle
C7_Witness == Triggered(2) /\ hist.attempts[2] = 0

\* C8: after an error raised anywhere in a poll cycle, the poll loop does not
\* terminate: the alert_loop task never ends.
C8_LoopNeverEnds == loop.pc # "dead"

\* C9: whatever the value stored under poll_interval_seconds, the interval the
\* poll loop sleeps is in [30, 300]: the stored integer clamped to that range
\* when the value parses, and 60 when it is absent, empty or does not parse.
C9_IntervalClamped ==
    loop.pc = "sleep" =>
        LET raw == get_setting(settings, POLL_INTERVAL_KEY)
            unset == raw = <<>> \/ raw[1] = <<>>
            n == IF unset THEN <<>> ELSE PyInt(raw[1])
        IN  /\ loop.interval \in 30..300
            /\ n = <<>> => loop.interval = 60
            /\ n # <<>> =>
                 /\ n[1] < 30 => loop.interval = 30
                 /\ n[1] > 300 => loop.interval = 300
                 /\ n[1] \in 30..300 => loop.interval = n[1]

\* the task sleeps 300 seconds on a stored value above 300
C9_Witness ==
    /\ loop.pc = "sleep"
    /\ POLL_INTERVAL_KEY \in DOMAIN settings
    /\ PyInt(settings[POLL_INTERVAL_KEY]) # <<>>
    /\ PyInt(settings[POLL_INTERVAL_KEY])[1] > 300
    /\ loop.interval = 300

\* C10: add with strike_price <= 0 is rejected with an error: no row is
\* created and list_all() is the same before and after, whoever calls add.
C10_NonPositiveRejected ==
    (op.name = "add_alert" /\ op.strike_price <= 0) =>
        /\ op.raised
        /\ op.ret = <<>>
        /\ op.after = op.before


\* a direct call of remove_alert has just returned
Removed == op.name = "remove_alert"

\* C11: remove(id) returns true exactly when an alert with that id was in the
\* store, and deletes it; a second remove(id) right after a remove(id) that
\* returned true returns false; removing an id that is not in the store returns
\* false, raises nothing and leaves every alert as it was.
C11_RemoveIdempotent ==
    Removed =>
        LET present == \E i \in 1..Len(op.before) : op.before[i].id = op.alert_id
            others == SelectSeq(op.before, LAMBDA a : a.id # op.alert_id)
        IN  /\ ~op.raised
            /\ op.ret <=> present
            /\ op.after = others
            /\ ~present => op.after = op.before
            /\ op.again => ~op.ret
            /\ \A a \in alerts : a.id # op.alert_id

\* remove(1) returned true and the remove(1) right after it returned false,
\* with alert 2 in the store before and after
C11_Witness ==
    /\ Removed
    /\ op.alert_id = 1
    /\ op.again
    /\ op.first_ret
    /\ ~op.ret
    /\ Ids(alerts) = {2}


\* the stored form of the tickers users type: upper case, no slash, USDT last
StoredSymbol(tk) ==
    IF tk[1] = "b" THEN <<"B", "U", "S", "D", "T">> ELSE <<"E", "U", "S", "D", "T">>

\* C12: round trip: for every add that returned, and until its alert is
\* removed, get_by_id of the returned id gives a record with the strike_price,
\* direction and note that were passed and the symbol of the record add
\* returned, which is the normalized form of the symbol passed.
C12_RoundTrip ==
    \A i \in DOMAIN op.log :
        LET passed == op.log[i]
            got == get_alert_by_id(alerts, i)
        IN  /\ got # <<>>
            /\ got[1].id = passed.ret.id
            /\ got[1].strike_price = passed.strike_price
            /\ got[1].direction = passed.direction
            /\ got[1].note = passed.note
            /\ got[1].ticker = passed.ret.ticker
            /\ passed.ret.ticker = StoredSymbol(passed.tk)

\* alert 1 was added as a down alert on "E/USDT" with a note, and is read back
\* after alert 2 was added and removed
C12_Witness ==
    /\ 1 \in DOMAIN op.log
    /\ op.log[1].tk = <<"E", "/", "U", "S", "D", "T">>
    /\ op.log[1].direction = "down"
    /\ op.log[1].note = <<"n">>
    /\ op.name = "remove_alert"
    /\ op.alert_id = 2
    /\ op.ret
    /\ get_alert_by_id(alerts, 1) # <<>>


\* a direct call of add_alert has just returned an alert
Added == op.name = "add_alert" /\ ~op.raised

\* C13: alert ids are unique and strictly increasing in order of creation over
\* any sequence of adds and removes: the id add returns is above every id that
\* was ever in the table, also when the alert that held the highest id has
\* been removed.
C13_IdsNeverReused ==
    /\ \A a, b \in alerts : a.id = b.id => a = b
    /\ Added =>
         /\ op.ret[1].id \notin op.earlier
         /\ \A j \in op.earlier : j < op.ret[1].id
         /\ \A i \in 1..Len(op.before) : op.before[i].id < op.ret[1].id

\* id 1 was assigned and its alert, the only one, removed; the next add
\* returned id 2
C13_Witness ==
    /\ Added
    /\ op.earlier = {1}
    /\ op.before = <<>>
    /\ op.ret[1].id = 2
    /\ Ids(alerts) = {2}


\* the add rules of C14 that concern the direction alone
DirectionRules ==
    /\ \A a \in alerts : a.direction \in {"touch", "up", "down"}
    /\ (op.name = "add_alert" /\ op.direction \notin {"touch", "up", "down", "omitted"}) =>
         /\ op.raised
         /\ op.after = op.before
    /\ (op.name = "add_alert" /\ op.direction = "omitted") =>
         /\ ~op.raised
         /\ op.ret[1].direction = "touch"

\* C14: in every reachable store state each stored alert has its direction in
\* {touch, up, down} and strike_price > 0; an add with any other direction
\* fails and stores nothing; an add without a direction stores touch.
C14_StoredValid ==
    /\ \A a \in alerts : a.strike_price > 0
    /\ DirectionRules


C16_ClosedCandle ==
    (op.name = "fetch_latest_closed_candle" /\ op.ret # <<>>) =>
        op.ret[1].close_time < op.now

\* the part of C16 that the code meets: the candle returned from a response of
\* two rows, or a missing one, is never of a bucket still forming
TwoRowsClosed ==
    (op.name = "fetch_latest_closed_candle" /\ Len(op.resp.klines) # 1) =>
        (op.ret # <<>> => op.ret[1].close_time < op.now)


\* the alert_loop task is inside check_alerts_and_send
InCycle == loop.pc \in {"for_ticker", "for_alert", "send", "react", "retire"}

\* C17: a delivery failure for one hit alert does not abort the cycle: the
\* alerts of the snapshot and the tickers that were left when the delivery
\* failed are all reached before the cycle ends; the alert whose delivery
\* failed is removed, and no second delivery is attempted for it, in this or
\* any later cycle.
C17_FailureDoesNotAbort ==
    /\ \A i \in hist.failed :
         /\ hist.attempts[i] = 1
         /\ ~Delivering(i) => i \notin Ids(alerts)
    /\ ~InCycle => (hist.owed.alerts = {} /\ hist.owed.tickers = {})

\* the delivery of alert 1 failed in this cycle, and alert 2, which was behind
\* it in the snapshot, has been evaluated and is being sent
C17_Witness ==
    /\ hist.track = "cycle"
    /\ hist.owed.on
    /\ hist.failed = {1}
    /\ loop.pc = "send"
    /\ loop.alert[1].id = 2
    /\ hist.owed.alerts = {}
    /\ 1 \notin Ids(alerts)

\* the delivery of an alert of BUSDT failed in this cycle, and EUSDT, which
\* was behind it in the cycle, has had its candle processed
AfterFailureNextTicker ==
    /\ hist.track = "cycle"
    /\ hist.owed.on
    /\ hist.failed # {}
    /\ loop.ticker = EUSDT
    /\ loop.pc = "for_alert"
    /\ hist.owed.tickers = {}


\* one step of the alert_loop task in which get_klines for the next ticker
\* raised or gave no row: the ticker is skipped and nothing else changes
C18_Step ==
    (/\ loop.pc = "for_ticker"
     /\ loop.tickers # <<>>
     /\ hist'.response \in {"raised", "empty"}) =>
        /\ last_checked' = last_checked
        /\ alerts' = alerts
        /\ hist'.attempts = hist.attempts
        /\ hist'.due = hist.due
        /\ loop'.candle = <<>>
        /\ loop'.snapshot = <<>>
        /\ loop'.pc = "for_ticker"
        /\ loop'.tickers = Tail(loop.tickers)

\* C18: when the candle fetch for a symbol fails or returns no data, the symbol
\* is skipped for the cycle and nothing else changes: its dedup marker keeps
\* its value, no alert is evaluated, notified or removed for it, and the
\* symbols left in the cycle are still processed.
C18_FetchFailureFrame == [][C18_Step]_vars

\* the fetch for BUSDT failed while its marker and an alert of it are there,
\* and EUSDT is still to come in the cycle
C18_Witness ==
    /\ hist.response = "raised"
    /\ loop.pc = "for_ticker"
    /\ loop.ticker = BUSDT
    /\ BUSDT \in DOMAIN last_checked
    /\ \E a \in alerts : a.ticker = BUSDT
    /\ loop.tickers = <<EUSDT>>


\* one step of the alert_loop task in which a candle is fetched for the next
\* ticker while a marker is stored for it: a close_time below or above the
\* marker is processed and becomes the marker, one equal to it is skipped
C19_Step ==
    (/\ loop.pc = "for_ticker"
     /\ loop.tickers # <<>>
     /\ loop'.candle # <<>>
     /\ Head(loop.tickers) \in DOMAIN last_checked) =>
        LET t == Head(loop.tickers)
            close_time == loop'.candle[1].close_time
        IN  /\ close_time < last_checked[t] =>
                (loop'.pc = "for_alert" /\ last_checked'[t] = close_time)
            /\ close_time > last_checked[t] =>
                (loop'.pc = "for_alert" /\ last_checked'[t] = close_time)
            /\ close_time = last_checked[t] =>
                (loop'.pc = "for_ticker" /\ last_checked' = last_checked)
            /\ hist'.stage >= hist.stage
            /\ (t = BUSDT /\ hist.stage \in {0, 2} /\ close_time = MaxTime
                  /\ last_checked[t] # close_time) => hist'.stage = hist.stage + 1
            /\ (t = BUSDT /\ hist.stage = 1 /\ close_time = MaxTime - 1) =>
                  hist'.stage = 2

\* C19: the dedup check skips a symbol only when the fetched close_time equals
\* the stored marker; any other close_time, also one older than the marker,
\* is processed and replaces the marker, so the close_times T1, T0, T1
\* (T0 < T1) fetched in a row for one symbol are processed three times.
C19_OlderIsProcessed == [][C19_Step]_vars

\* the candles of close_time 2, 1 and 2 were processed in a row for BUSDT,
\* and the third is being evaluated
C19_Witness ==
    /\ hist.stage = 3
    /\ loop.pc = "for_alert"
    /\ loop.ticker = BUSDT
    /\ loop.candle[1].close_time = MaxTime
    /\ last_checked[BUSDT] = MaxTime


\* one step: a step of the alert_loop task leaves the store as it is, or it is
\* the removal of line 90 and takes out the one alert that the candle of this
\* cycle hit; the rows that stay, in any step, stay as they were
C20_Step ==
    /\ loop' # loop =>
         \/ alerts' = alerts
         \/ /\ loop.pc = "retire"
            /\ loop.hit
            /\ hist.fresh
            /\ hist.last_fetch = "processed"
            /\ RuleHolds(loop.alert[1], loop.candle[1])
            /\ alerts' = {r \in alerts : r.id # loop.alert[1].id}
    /\ \A a \in alerts, b \in alerts' : a.id = b.id => a = b

\* C20: a poll cycle removes from the store only alerts that were hit by the
\* candle processed in that cycle: every alert that is not hit, also every
\* alert of a symbol skipped by fetch failure or dedup, is in the store with
\* its fields unchanged when the cycle ends, unless a remove command deleted it.
C20_OnlyHitsRemoved == [][C20_Step]_vars

\* alert 1 was hit and has been removed, and alert 2, next in the snapshot and
\* not hit by the candle, is in the store
C20_Witness ==
    /\ loop.pc = "for_alert"
    /\ loop.alert # <<>>
    /\ loop.alert[1].id = 1
    /\ loop.hit
    /\ 1 \notin Ids(alerts)
    /\ Len(loop.snapshot) = 1
    /\ loop.snapshot[1] \in alerts
    /\ ~RuleHolds(loop.snapshot[1], loop.candle[1])


\* the part of C21 that the code meets: the announcement channel that a
\* cycle's deliveries fall back to is the one set when the cycle started
DefaultFromCycleStart ==
    loop.pc \in {"send", "react", "retire"} =>
        /\ loop.channel_id = hist.start.channel_id
        /\ loop.send_channel = hist.start.channel_id

\* C21: in every poll cycle the default destination of the cycle's deliveries
\* and the poll interval of the sleep that ends the cycle are the values the
\* settings store held when the cycle started, so that a setting changed by a
\* command takes effect from the next cycle.
C21_SettingsFromCycleStart ==
    /\ DefaultFromCycleStart
    /\ loop.pc = "sleep" => loop.interval = hist.start.interval


\* s is in normalized form: no lower-case letter, no slash, USDT last
IsNormalForm(s) ==
    /\ \A i \in 1..Len(s) : s[i] \notin {"/", "b", "e", "u", "s", "d", "t"}
    /\ Len(s) >= 4
    /\ SubSeq(s, Len(s) - 3, Len(s)) = <<"U", "S", "D", "T">>

\* C22: after any sequence of adds and removes every stored alert's symbol is
\* in normalized form (upper case, no '/', ending in USDT); normalizing it
\* again changes nothing; distinct_symbols() is exactly the set of symbols in
\* list_all(); and the alerts the poll cycle selects for a symbol are
\* list_by_symbol of that symbol.
C22_SymbolsNormalized ==
    LET all == get_all_alerts(alerts)
        listed == {all[i].ticker : i \in 1..Len(all)}
        distinct == get_distinct_tickers(alerts)
    IN  /\ \A t \in listed :
              /\ IsNormalForm(t)
              /\ NormalizeTicker(t) = t
              /\ SelectForTicker(alerts, t) = get_alerts_for_ticker(alerts, t)
              /\ Len(get_alerts_for_ticker(alerts, t)) >= 1
        /\ {distinct[i] : i \in 1..Len(distinct)} = listed
        /\ Len(distinct) = Cardinality(listed)
        /\ \A tk \in RawTickers :
              NormalizeTicker(NormalizeTicker(tk)) = NormalizeTicker(tk)
        /\ \A i \in DOMAIN op.log :
              get_alerts_for_ticker(alerts, op.log[i].tk)
                = SelectForTicker(alerts, op.log[i].ret.ticker)

\* "b" and "b/usdt" were added and are both listed under BUSDT, the one
\* symbol of the store
C22_Witness ==
    /\ DOMAIN op.log = {1, 2}
    /\ op.log[1].tk = <<"b">>
    /\ op.log[2].tk = <<"b", "/", "u", "s", "d", "t">>
    /\ get_distinct_tickers(alerts) = <<BUSDT>>
    /\ Len(get_alerts_for_ticker(alerts, <<"b">>)) = 2

\* one step: at most one alert leaves the store, and only by a remove_alert
\* call that returns True for its id
C23_Step ==
    /\ Cardinality(alerts \ alerts') <= 1
    /\ \A r \in alerts \ alerts' :
         \/ r.id \in hist'.removal.by_cmd \ hist.removal.by_cmd
         \/ r.id \in hist'.removal.by_poll \ hist.removal.by_poll

\* C23: under any interleaving of a remove command for alert X with a poll
\* cycle in which X hits, X is deleted exactly once: of the command's
\* remove(X) and the dispatcher's remove(X) exactly one returns true, X is
\* absent afterwards, and neither deletes another alert.
C23_DeletedExactlyOnce ==
    /\ [](\A i \in hist.removal.polled :
            /\ (i \in hist.removal.by_cmd) # (i \in hist.removal.by_poll)
            /\ i \notin Ids(alerts))
    /\ [](\A i \in hist.removal.by_cmd : i \notin Ids(alerts))
    /\ [][C23_Step]_vars

\* a remove command deleted alert 1 while its notification was awaited, and
\* the remove of line 90 then returned False, with alert 2 still in the store
C23_Witness ==
    /\ 1 \in hist.removal.polled
    /\ 1 \in hist.removal.by_cmd
    /\ 1 \notin hist.removal.by_poll
    /\ hist.attempts[1] = 1
    /\ Ids(alerts) = {2}


\* one step: a notification is attempted only for an alert that is in the
\* store when channel.send is called for it
C24_Step ==
    \A i \in 1..MaxId :
        hist'.attempts[i] > hist.attempts[i] => i \in Ids(alerts)

\* C24: a notification is attempted only for an alert that is in the store at
\* the moment of the attempt: once a remove command for an alert has returned
\* true, no notification for it is attempted afterwards, under any
\* interleaving of the command handlers with the delivery awaits of the cycle.
C24_NotifyOnlyStored == [][C24_Step]_vars


\* the decimal numerals of the integers in [30, 300]
NumeralsInRange ==
    {<<Digits[a + 1], Digits[b + 1]>> : a \in 3..9, b \in 0..9}
    \cup {<<Digits[a + 1], Digits[b + 1], Digits[c + 1]>> :
            a \in 1..2, b \in 0..9, c \in 0..9}
    \cup {<<"3", "0", "0">>}

\* C25: the set-poll-interval command stores a value only when its argument is
\* an integer within [30, 300]: for a non-numeric, below-minimum or
\* above-maximum argument it replies with an error and leaves the setting
\* unchanged, so a value it has written is the numeral of an integer in
\* [30, 300].
C25_SetIntervalValidated ==
    /\ POLL_INTERVAL_KEY \in DOMAIN settings =>
         settings[POLL_INTERVAL_KEY] \in NumeralsInRange
    /\ (op.name = "setinterval" /\ op.token # <<>>) =>
         LET n == PyInt(op.token)
             numeric == n # <<>>
             letters == \E i \in 1..Len(op.token) : op.token[i] = "x"
         IN  /\ letters => ~numeric
             /\ ~numeric =>
                  (settings = op.before /\ op.reply = "Interval must be a number.")
             /\ (numeric /\ (n[1] < 30 \/ n[1] > 300)) =>
                  (settings = op.before /\ op.reply = "Interval must be between")
             /\ (numeric /\ n[1] >= 30 /\ n[1] <= 300) =>
                  /\ op.reply = "Polling interval set to"
                  /\ PyInt(settings[POLL_INTERVAL_KEY]) = n

\* "!setinterval 305" was refused while 50 is stored, and 50 stays
C25_Witness ==
    /\ op.name = "setinterval"
    /\ op.token = <<"3", "0", "5">>
    /\ op.reply = "Interval must be between"
    /\ op.before = settings
    /\ get_setting(settings, POLL_INTERVAL_KEY) = <<(<<"5", "0">>)>>


\* C26: the result of fetch_latest_closed_candle distinguishes a failed fetch
\* from an empty result: what the caller gets when get_klines raised differs
\* from what it gets when get_klines returned no rows.
C26_FailureDistinctFromEmpty ==
    (op.name = "fetch_latest_closed_candle" /\ op.resp.raised) =>
        op.ret # fetch_latest_closed_candle([raised |-> FALSE, klines |-> <<>>])


\* C27: in the pagination view of the alert list, after any presses of the
\* previous and next buttons by any users, the current page index is within
\* 0..len(pages)-1, a press at the first or at the last page does not move
\* past it, and a press by a user other than the one who ran the list command
\* leaves the index unchanged.
C27_PageIndexInRange ==
    op.name \in ViewOps \cup {"on_timeout"} =>
        /\ Len(op.pages) >= 1
        /\ op.current \in 0..(Len(op.pages) - 1)
        /\ (op.name = "prev_button" /\ op.before = 0) => op.current = 0
        /\ (op.name = "next_button" /\ op.before = Len(op.pages) - 1) =>
             op.current = op.before
        /\ (op.name \in {"prev_button", "next_button"} /\ op.user # op.author_id) =>
             op.current = op.before

\* the author pressed next on the last of three pages
C27_Witness ==
    /\ op.name = "next_button"
    /\ Len(op.pages) = 3
    /\ op.user = op.author_id
    /\ op.before = 2
    /\ op.current = 2

====
